---- MODULE Spec2Model ----
(***************************************************************************)
(* LitPKPExecutor (contracts/LitPKPExecutor.sol): an ERC-7579 executor     *)
(* module.  A smart account registers a PKP address (onInstall), removes   *)
(* it (onUninstall) and asks the module to forward a call that the PKP has *)
(* signed (executeFromExecutor).                                           *)
(*                                                                         *)
(* The model is the contract's storage, its event log and the EVM call     *)
(* stack of executeFromExecutor invocations whose forwarded call is in     *)
(* flight.  While a forwarded call is in flight the target is opaque: it   *)
(* may invoke any entry point of the module with any msg.sender, and it    *)
(* returns either success (with return data) or failure.  A revert         *)
(* discards every state change of the reverted invocation, the events and  *)
(* the effects of the forwarded call included.                             *)
(*                                                                         *)
(* Idealisations: keccak256 is collision free (a hash is the tagged byte   *)
(* string it was computed from); a well-formed ECDSA signature is the pair *)
(* (signing key's address, digest signed), and recovering it against any   *)
(* other digest yields an address nobody controls.  ECDSA.recover and the  *)
(* nonReentrant modifier are OpenZeppelin's (v5: custom errors), modelled  *)
(* where the contract uses them.                                           *)
(***************************************************************************)
EXTENDS Integers, Sequences, FiniteSets, TLC

VARIABLES
    accountPKPs,    \* mapping(address => PKPInfo)            (line 40)
    pkpToAccount,   \* mapping(address => address)            (line 43)
    status,         \* ReentrancyGuard's _status              (line 12)
    events,         \* the event log of the chain, in order
    calls,          \* the forwarded calls whose effects stand, in order
    stack,          \* executeFromExecutor invocations with a call in flight
    last,           \* the latest invocation: its inputs and how it ended
    chainid,        \* block.chainid
    self,           \* address(this)
    balance,        \* address(this).balance
    sample,         \* the latest pair of operations packed for hashing
    client          \* the TypeScript LitPKPExecutor object and the demo's main

vars == <<accountPKPs, pkpToAccount, status, events, calls, stack, last, chainid, self,
          balance, sample, client>>

----------------------------------------------------------------------------
(* Bounds of the model *)

\* the longest event log explored
MaxLog == 4
\* the deepest nesting of executeFromExecutor invocations explored
MaxDepth == 2
\* the largest balance of the module explored
MaxBalance == 1
\* the longest call data packed when the encoding is explored on its own
MaxDataLen == 2

----------------------------------------------------------------------------
(* Solidity types and constants *)

MODULE_TYPE == 2

\* abi.encodePacked widths: address is 20 bytes, uint256 and bytes32 are 32
AddressBytes == 20
WordBytes == 32

ZeroAddress == 0

\* msg.sender of an invocation: the smart accounts
Accounts == {1, 2}
\* addresses for which somebody holds the private key (the PKPs)
Keys == {3, 4}
\* what an account may pass as pkpEthAddress
PKPAddresses == {ZeroAddress} \cup Keys
TokenIds == {1}
Targets == {5}
Values == {0, 1}
Datas == {<<>>}
ReturnDatas == {<<>>, <<7>>}
\* the chains and the deployed instances of the module
ChainIds == {1, 2}
ModuleAddresses == {6, 7}

\* the amounts of ether forced onto the module
Amounts == {1}

\* the module type ids asked about: validator (1) and executor (2)
ModuleTypeIds == {1, MODULE_TYPE}

NOT_ENTERED == "NOT_ENTERED"
ENTERED == "ENTERED"

\* the default value of a PKPInfo slot
EmptyPKPInfo == [pkpEthAddress |-> ZeroAddress, pkpTokenId |-> 0, isInstalled |-> FALSE]

----------------------------------------------------------------------------
(* Hashing and signatures *)

RECURSIVE BigEndian(_, _)
\* an unsigned integer as `width` bytes, most significant first
BigEndian(n, width) ==
    IF width = 0 THEN <<>>
    ELSE Append(BigEndian(n \div 256, width - 1), n % 256)

\* a faulty encoding: the value is packed in as few bytes as it needs
EncodePackedValueUnpadded(account, target, value, data, chain, module) ==
    BigEndian(account, AddressBytes) \o BigEndian(target, AddressBytes)
        \o (IF value = 0 THEN <<>>
            ELSE IF value < 256 THEN <<value>>
            ELSE BigEndian(value, 2))
        \o data
        \o BigEndian(chain, WordBytes) \o BigEndian(module, AddressBytes)

\* a faulty encoding: block.chainid is left out
EncodePackedWithoutChain(account, target, value, data, chain, module) ==
    BigEndian(account, AddressBytes) \o BigEndian(target, AddressBytes)
        \o BigEndian(value, WordBytes) \o data
        \o BigEndian(module, AddressBytes)

\* abi.encodePacked(account, target, value, data, block.chainid, address(this))
EncodePackedOperation(account, target, value, data, chain, module) ==
    BigEndian(account, AddressBytes) \o BigEndian(target, AddressBytes)
        \o BigEndian(value, WordBytes) \o data
        \o BigEndian(chain, WordBytes) \o BigEndian(module, AddressBytes)

\* a faulty encoding: account and target are packed in the other order
GetOperationHashPackedTargetFirst(account, target, value, data, chain, module) ==
    BigEndian(target, AddressBytes) \o BigEndian(account, AddressBytes)
        \o BigEndian(value, WordBytes) \o data
        \o BigEndian(chain, WordBytes) \o BigEndian(module, AddressBytes)

\* the same packing as getOperationHash writes it (lines 187-194)
GetOperationHashPacked(account, target, value, data, chain, module) ==
    BigEndian(account, AddressBytes) \o BigEndian(target, AddressBytes)
        \o BigEndian(value, WordBytes) \o data
        \o BigEndian(chain, WordBytes) \o BigEndian(module, AddressBytes)

\* "\x19Ethereum Signed Message:\n32"
EthSignedMessagePrefix ==
    <<25, 69, 116, 104, 101, 114, 101, 117, 109, 32, 83, 105, 103, 110, 101, 100,
      32, 77, 101, 115, 115, 97, 103, 101, 58, 10, 51, 50>>

RECURSIVE SetToSeq(_)
SetToSeq(S) ==
    IF S = {} THEN <<>>
    ELSE LET x == CHOOSE y \in S : TRUE IN <<x>> \o SetToSeq(S \ {x})

\* the byte strings that are hashed as operations, each once, in a fixed order
PackedOperations ==
    SetToSeq({EncodePackedOperation(a, t, v, d, c, m) :
                a \in Accounts, t \in Targets, v \in Values, d \in Datas,
                c \in ChainIds, m \in ModuleAddresses}
             \cup
             {GetOperationHashPacked(a, t, v, d, c, m) :
                a \in Accounts, t \in Targets, v \in Values, d \in Datas,
                c \in ChainIds, m \in ModuleAddresses})

\* abi.encodePacked("\x19Ethereum Signed Message:\n32", operationHash)
EncodePackedMessage(operationHash) ==
    EthSignedMessagePrefix \o BigEndian(operationHash, WordBytes)

\* the byte strings that are hashed as prefixed messages, in a fixed order
PackedMessages ==
    [i \in 1..Len(PackedOperations) |-> EncodePackedMessage(i)]

\* keccak256 on the byte strings the module hashes: collision free, a hash
\* being the 256-bit number of its preimage in the order above (equal strings
\* have equal hashes, different strings different ones)
Keccak256(bytes) ==
    IF \E i \in DOMAIN PackedOperations : PackedOperations[i] = bytes
    THEN CHOOSE i \in DOMAIN PackedOperations : PackedOperations[i] = bytes
    ELSE IF \E j \in DOMAIN PackedMessages : PackedMessages[j] = bytes
    THEN Len(PackedOperations) + (CHOOSE j \in DOMAIN PackedMessages : PackedMessages[j] = bytes)
    ELSE 0

\* keccak256(abi.encodePacked(account, target, value, data, block.chainid, address(this)))
OperationHash(account, target, value, data, chain, module) ==
    Keccak256(EncodePackedOperation(account, target, value, data, chain, module))

\* keccak256(abi.encodePacked("\x19Ethereum Signed Message:\n32", operationHash))
EthSignedMessageHash(operationHash) ==
    Keccak256(EncodePackedMessage(operationHash))

\* both hashes of every operation, computed once
OperationHashes ==
    [a \in Accounts, t \in Targets, v \in Values, d \in Datas,
     c \in ChainIds, m \in ModuleAddresses |-> OperationHash(a, t, v, d, c, m)]
\* the hash getOperationHash computes (lines 186-195), computed once
GetOperationHashes ==
    [a \in Accounts, t \in Targets, v \in Values, d \in Datas,
     c \in ChainIds, m \in ModuleAddresses |->
        Keccak256(GetOperationHashPacked(a, t, v, d, c, m))]
EthSignedMessageHashes ==
    [h \in {OperationHashes[x] : x \in DOMAIN OperationHashes} |-> EthSignedMessageHash(h)]

\* a well-formed 65-byte signature made with the key of address `key` over `digest`
Sign(key, digest) == [kind |-> "ecdsa", signer |-> key, digest |-> digest]
\* signatures that ECDSA.recover rejects
Malformed(kind) == [kind |-> kind, signer |-> ZeroAddress, digest |-> 0]
MalformedSignatures == {Malformed("badLength"), Malformed("highS"), Malformed("badV")}

\* a faulty recovery: the bare ecrecover, which yields address(0) for a
\* signature it cannot recover from
RecoverBare(digest, signature) ==
    IF signature.kind # "ecdsa" THEN [err |-> "ok", addr |-> ZeroAddress]
    ELSE IF signature.digest = digest
    THEN [err |-> "ok", addr |-> signature.signer]
    ELSE [err |-> "ok", addr |-> 255]

\* a faulty recovery: the signer is taken from the signature whatever the digest
RecoverAnyDigest(digest, signature) ==
    CASE signature.kind = "badLength" -> [err |-> "ECDSAInvalidSignatureLength", addr |-> ZeroAddress]
      [] signature.kind = "highS"     -> [err |-> "ECDSAInvalidSignatureS", addr |-> ZeroAddress]
      [] signature.kind = "badV"      -> [err |-> "ECDSAInvalidSignature", addr |-> ZeroAddress]
      [] OTHER -> [err |-> "ok", addr |-> signature.signer]

\* ECDSA.recover(digest, signature): reverts on a malformed signature, never
\* returns address(0)
Recover(digest, signature) ==
    CASE signature.kind = "badLength" -> [err |-> "ECDSAInvalidSignatureLength", addr |-> ZeroAddress]
      [] signature.kind = "highS"     -> [err |-> "ECDSAInvalidSignatureS", addr |-> ZeroAddress]
      [] signature.kind = "badV"      -> [err |-> "ECDSAInvalidSignature", addr |-> ZeroAddress]
      [] OTHER ->
            IF signature.digest = digest
            THEN [err |-> "ok", addr |-> signature.signer]
            ELSE [err |-> "ok", addr |-> 255]   \* some address nobody controls

\* the chain and the address of the deployment that is explored
DeployedChain == CHOOSE c \in ChainIds : \A c2 \in ChainIds : c <= c2
DeployedAddress == CHOOSE m \in ModuleAddresses : \A m2 \in ModuleAddresses : m <= m2

\* the signatures presented to the module: each key's signature over the
\* prefixed digest of each operation of this deployment, and the malformed ones
Signatures ==
    {Sign(k, EthSignedMessageHashes[OperationHashes[a, t, v, d, DeployedChain, DeployedAddress]]) :
        k \in Keys, a \in Accounts, t \in Targets, v \in Values, d \in Datas}
    \cup MalformedSignatures

----------------------------------------------------------------------------
(* View functions *)

\* a faulty query: the module type is not looked at
isModuleInstalledAnyType(account, moduleTypeId) == accountPKPs[account].isInstalled

isModuleInstalled(account, moduleTypeId) ==
    IF moduleTypeId # MODULE_TYPE THEN FALSE ELSE accountPKPs[account].isInstalled

getPKPInfo(account) ==
    <<accountPKPs[account].pkpEthAddress, accountPKPs[account].pkpTokenId,
      accountPKPs[account].isInstalled>>

getOperationHash(account, target, value, data) ==
    GetOperationHashes[account, target, value, data, chainid, self]

\* type(IERC7579Module).interfaceId and some other interface id
IERC7579ModuleInterfaceId == "IERC7579Module"
InterfaceIds == {IERC7579ModuleInterfaceId, "IERC165"}

supportsInterface(interfaceId) == interfaceId = IERC7579ModuleInterfaceId

----------------------------------------------------------------------------
(* Invocations *)

\* abi.encode(pkpEthAddress, pkpTokenId): two 32-byte words
AbiEncode(pkpEthAddress, pkpTokenId) ==
    BigEndian(pkpEthAddress, WordBytes) \o BigEndian(pkpTokenId, WordBytes)

RECURSIVE FromBigEndian(_)
\* the unsigned integer that the bytes are, most significant first
FromBigEndian(bytes) ==
    IF bytes = <<>> THEN 0
    ELSE 256 * FromBigEndian(SubSeq(bytes, 1, Len(bytes) - 1)) + bytes[Len(bytes)]

\* abi.decode(data, (address, bytes32)) (line 50): reverts when the data are
\* shorter than two words or the address word has bits above bit 159
AbiDecode(data) ==
    IF \/ Len(data) < 2 * WordBytes
       \/ \E i \in 1..(WordBytes - AddressBytes) : data[i] # 0
    THEN [ok |-> FALSE, pkpEthAddress |-> ZeroAddress, pkpTokenId |-> 0]
    ELSE [ok |-> TRUE,
          pkpEthAddress |-> FromBigEndian(SubSeq(data, 1, WordBytes)),
          pkpTokenId |-> FromBigEndian(SubSeq(data, WordBytes + 1, 2 * WordBytes))]

\* what an account may pass to onInstall: the encoding of each (address, token
\* id), and bytes that are not an encoding
InstallDatas ==
    {AbiEncode(p, k) : p \in PKPAddresses, k \in TokenIds} \cup {<<>>}

\* the decoding of each of them, computed once
Decoded == [d \in InstallDatas |-> AbiDecode(d)]

NoInvocation ==
    [op |-> "none", sender |-> ZeroAddress, depth |-> 0,
     decoded |-> FALSE, pkpEthAddress |-> ZeroAddress, pkpTokenId |-> 0,
     account |-> ZeroAddress, moduleTypeId |-> 0, interfaceId |-> "",
     view |-> <<>>,
     target |-> ZeroAddress, value |-> 0, data |-> <<>>,
     signature |-> Malformed("badLength"),
     callSuccess |-> FALSE, callReturnData |-> <<>>,
     result |-> "none", returnData |-> <<>>]

\* no pair of operations has been packed
NoSample == [first |-> <<>>, second |-> <<>>, packed |-> <<>>, queried |-> <<>>]

\* what the signing network does during one call: whether the node client
\* connects, whether the session signature is created, and what pkpSign yields
Nets ==
    [connect : BOOLEAN, session : BOOLEAN,
     signing : {"throws", "null", "noR", "noS", "ok"}, recid : {0, 1}]
NoNet == [connect |-> TRUE, session |-> TRUE, signing |-> "ok", recid |-> 0]

\* no method of the LitPKPExecutor object has been called
NoCall ==
    [method |-> "none", net |-> NoNet, userOpHash |-> 0, toSign |-> <<>>,
     thrown |-> FALSE, signature |-> <<>>, success |-> FALSE]

\* an operation of the demo
NoOperation == [to |-> ZeroAddress, value |-> 0, data |-> <<>>]

\* no LitPKPExecutor object has been constructed and main is not running
NoClient ==
    [pc |-> "none", round |-> 1, isConnected |-> FALSE,
     account |-> ZeroAddress, pkpEthAddress |-> ZeroAddress, pkpTokenId |-> 0,
     operation |-> NoOperation, operationHash |-> 0, call |-> NoCall,
     installStatus |-> "none", signed |-> "none", signature |-> <<>>,
     submitted |-> <<>>]

Init ==
    /\ accountPKPs = [a \in Accounts |-> EmptyPKPInfo]
    /\ pkpToAccount = [p \in PKPAddresses |-> ZeroAddress]
    /\ status = NOT_ENTERED
    /\ events = <<>>
    /\ calls = <<>>
    /\ stack = <<>>
    /\ last = NoInvocation
    /\ chainid = DeployedChain
    /\ self = DeployedAddress
    /\ balance = 0
    /\ sample = NoSample
    /\ client = NoClient

\* what a revert restores: the contract's storage, the log and the effects of
\* the calls made
Storage ==
    [accountPKPs |-> accountPKPs, pkpToAccount |-> pkpToAccount,
     status |-> status, events |-> events, calls |-> calls, balance |-> balance]

\* the events (lines 19-22)
ModuleInstalled(account, pkpAddress, pkpTokenId) ==
    [name |-> "ModuleInstalled", account |-> account, pkpAddress |-> pkpAddress,
     pkpTokenId |-> pkpTokenId]
ModuleUninstalled(account, pkpAddress) ==
    [name |-> "ModuleUninstalled", account |-> account, pkpAddress |-> pkpAddress]
\* a faulty event: the signer is not reported
PKPSignatureVerifiedNoSigner(account, operationHash, pkpAddress) ==
    [name |-> "PKPSignatureVerified", account |-> account,
     operationHash |-> operationHash, pkpAddress |-> ZeroAddress]

PKPSignatureVerified(account, operationHash, pkpAddress) ==
    [name |-> "PKPSignatureVerified", account |-> account,
     operationHash |-> operationHash, pkpAddress |-> pkpAddress]

\* a faulty event: the value is not reported
OperationExecutedNoValue(account, target, value, data) ==
    [name |-> "OperationExecuted", account |-> account, target |-> target,
     value |-> 0, data |-> data]

OperationExecuted(account, target, value, data) ==
    [name |-> "OperationExecuted", account |-> account, target |-> target,
     value |-> value, data |-> data]

\* room in the explored log for n more events
Room(n) == Len(events) + n <= MaxLog

\* faulty checks: the pkpToAccount test (line 56) is missing
InstallCheckWithoutPKPCheck(pkps, p2a, sender, pkpEthAddress) ==
    IF pkps[sender].isInstalled THEN "ModuleAlreadyInstalled" ELSE "ok"

\* faulty checks: the isInstalled test (line 52) is missing
InstallCheckWithoutInstalledCheck(pkps, p2a, sender, pkpEthAddress) ==
    IF p2a[pkpEthAddress] # ZeroAddress THEN "UnauthorizedPKP" ELSE "ok"

\* faulty checks: the pkpToAccount test (line 56) is made first
InstallCheckPKPFirst(pkps, p2a, sender, pkpEthAddress) ==
    IF p2a[pkpEthAddress] # ZeroAddress THEN "UnauthorizedPKP"
    ELSE IF pkps[sender].isInstalled THEN "ModuleAlreadyInstalled"
    ELSE "ok"

\* the checks of onInstall, in order (lines 52-58)
InstallCheck(pkps, p2a, sender, pkpEthAddress) ==
    IF pkps[sender].isInstalled THEN "ModuleAlreadyInstalled"
    ELSE IF p2a[pkpEthAddress] # ZeroAddress THEN "UnauthorizedPKP"
    ELSE "ok"

\* a faulty install: the reverse index is not written
SetPkpToAccountSkipped(p2a, pkpEthAddress, sender) == p2a

\* pkpToAccount[pkpEthAddress] = msg.sender (line 66)
SetPkpToAccount(p2a, pkpEthAddress, sender) == [p2a EXCEPT ![pkpEthAddress] = sender]

onInstall(sender, data) ==
    LET pkpEthAddress == Decoded[data].pkpEthAddress
        pkpTokenId == Decoded[data].pkpTokenId
        outcome == IF ~Decoded[data].ok THEN "DecodeFailed"
                   ELSE InstallCheck(accountPKPs, pkpToAccount, sender, pkpEthAddress)
        inv == [NoInvocation EXCEPT !.op = "onInstall", !.sender = sender,
                    !.depth = Len(stack), !.decoded = Decoded[data].ok,
                    !.pkpEthAddress = pkpEthAddress,
                    !.pkpTokenId = pkpTokenId, !.result = outcome]
    IN  /\ last' = inv
        /\ IF outcome # "ok"
           THEN UNCHANGED <<accountPKPs, pkpToAccount, events>>
           ELSE /\ Room(1)
                /\ accountPKPs' = [accountPKPs EXCEPT ![sender] =
                        [pkpEthAddress |-> pkpEthAddress, pkpTokenId |-> pkpTokenId,
                         isInstalled |-> TRUE]]
                /\ pkpToAccount' = SetPkpToAccount(pkpToAccount, pkpEthAddress, sender)
                /\ events' = Append(events, ModuleInstalled(sender, pkpEthAddress, pkpTokenId))
        /\ UNCHANGED <<status, calls, stack, chainid, self, balance, sample, client>>

\* a faulty uninstall: the reverse index keeps its entry
DeletePkpToAccountSkipped(p2a, pkpEthAddress) == p2a

\* delete pkpToAccount[pkpEthAddress] (line 84)
DeletePkpToAccount(p2a, pkpEthAddress) == [p2a EXCEPT ![pkpEthAddress] = ZeroAddress]

\* a faulty uninstall: the record of the account keeps its values
DeleteAccountPKPSkipped(pkps, sender) == pkps

\* a faulty uninstall: every record is deleted
DeleteAccountPKPOfAll(pkps, sender) == [a \in DOMAIN pkps |-> EmptyPKPInfo]

\* delete accountPKPs[msg.sender] (line 83)
DeleteAccountPKP(pkps, sender) == [pkps EXCEPT ![sender] = EmptyPKPInfo]

\* the check of onUninstall (lines 77-79)
UninstallCheck(pkps, sender) ==
    IF ~pkps[sender].isInstalled THEN "ModuleNotInstalled" ELSE "ok"

onUninstall(sender) ==
    LET outcome == UninstallCheck(accountPKPs, sender)
        pkpEthAddress == accountPKPs[sender].pkpEthAddress
        inv == [NoInvocation EXCEPT !.op = "onUninstall", !.sender = sender,
                    !.depth = Len(stack), !.result = outcome]
    IN  /\ last' = inv
        /\ IF outcome # "ok"
           THEN UNCHANGED <<accountPKPs, pkpToAccount, events>>
           ELSE /\ Room(1)
                /\ accountPKPs' = DeleteAccountPKP(accountPKPs, sender)
                /\ pkpToAccount' = DeletePkpToAccount(pkpToAccount, pkpEthAddress)
                /\ events' = Append(events, ModuleUninstalled(sender, pkpEthAddress))
        /\ UNCHANGED <<status, calls, stack, chainid, self, balance, sample, client>>

\* a faulty gate: the modifier is missing
NonReentrantMissing(st) == "ok"

\* the nonReentrant modifier's entry check (line 115)
NonReentrantBefore(st) == IF st = ENTERED THEN "ReentrancyGuardReentrantCall" ELSE "ok"

\* a faulty gate: it is not opened again
NonReentrantAfterMissing(st) == st

\* the nonReentrant modifier after the function body (line 115)
NonReentrantAfter(st) == NOT_ENTERED

\* a faulty signer check: the recovered address is not compared (line 138)
SignerCheckWithoutComparison(digest, signature, registered) ==
    LET rec == Recover(digest, signature)
    IN  IF rec.err # "ok" THEN rec.err ELSE "ok"

\* the signer check (lines 136-140)
SignerCheck(digest, signature, registered) ==
    LET rec == Recover(digest, signature)
    IN  IF rec.err # "ok" THEN rec.err
        ELSE IF rec.addr # registered THEN "InvalidSignature"
        ELSE "ok"

\* faulty checks: the signature is verified before the registration is tested
ExecuteCheckSignatureFirst(pkps, st, chain, module, sender, target, value, data, signature) ==
    LET checked == SignerCheck(
            EthSignedMessageHashes[OperationHashes[sender, target, value, data, chain, module]],
            signature, pkps[sender].pkpEthAddress)
    IN  IF NonReentrantBefore(st) # "ok" THEN NonReentrantBefore(st)
        ELSE IF checked # "ok" THEN checked
        ELSE IF ~pkps[sender].isInstalled THEN "ModuleNotInstalled"
        ELSE "ok"

\* executeFromExecutor up to the forwarded call (lines 115-140): the error it
\* reverts with, or "ok"
ExecuteCheck(pkps, st, chain, module, sender, target, value, data, signature) ==
    IF NonReentrantBefore(st) # "ok" THEN NonReentrantBefore(st)
    ELSE IF ~pkps[sender].isInstalled THEN "ModuleNotInstalled"
    ELSE SignerCheck(
            EthSignedMessageHashes[OperationHashes[sender, target, value, data, chain, module]],
            signature, pkps[sender].pkpEthAddress)

\* a faulty call: ether that the module does not have is sent
CallFundedAlways(bal, value) == TRUE

\* target.call{value: value} (line 145) transfers the value from the module's
\* balance; the call fails at once when the balance is smaller
CallFunded(bal, value) == value <= bal

\* a faulty executeFromExecutor: an accepted signature uses up the registration
executeFromExecutorConsuming(sender, target, value, data, signature) ==
    LET outcome == ExecuteCheck(accountPKPs, status, chainid, self,
                                sender, target, value, data, signature)
        inv == [NoInvocation EXCEPT !.op = "executeFromExecutor", !.sender = sender,
                    !.depth = Len(stack), !.target = target, !.value = value,
                    !.data = data, !.signature = signature]
        operationHash == OperationHashes[sender, target, value, data, chainid, self]
    IN  IF outcome # "ok"
        THEN /\ last' = [inv EXCEPT !.result = outcome]
             /\ UNCHANGED <<accountPKPs, pkpToAccount, status, events, calls, stack,
                            chainid, self, balance, sample, client>>
        ELSE IF ~CallFunded(balance, value)
        THEN \* the call fails at once and the invocation reverts (lines 145-149)
             /\ last' = [inv EXCEPT !.result = "ExecutionFailed"]
             /\ UNCHANGED <<accountPKPs, pkpToAccount, status, events, calls, stack,
                            chainid, self, balance, sample, client>>
        ELSE /\ Room(1)
             /\ Len(stack) < MaxDepth
             /\ last' = [inv EXCEPT !.result = "calling"]
             /\ balance' = balance - value
             /\ status' = ENTERED
             /\ events' = Append(events,
                    PKPSignatureVerified(sender, operationHash,
                                         accountPKPs[sender].pkpEthAddress))
             /\ calls' = Append(calls, [target |-> target, value |-> value, data |-> data])
             /\ stack' = Append(stack, [invocation |-> inv, saved |-> Storage])
             /\ accountPKPs' = DeleteAccountPKP(accountPKPs, sender)
             /\ UNCHANGED <<pkpToAccount, chainid, self, sample, client>>

\* executeFromExecutor from its entry to the forwarded call (lines 110-145)
executeFromExecutor(sender, target, value, data, signature) ==
    LET outcome == ExecuteCheck(accountPKPs, status, chainid, self,
                                sender, target, value, data, signature)
        inv == [NoInvocation EXCEPT !.op = "executeFromExecutor", !.sender = sender,
                    !.depth = Len(stack), !.target = target, !.value = value,
                    !.data = data, !.signature = signature]
        operationHash == OperationHashes[sender, target, value, data, chainid, self]
    IN  IF outcome # "ok"
        THEN /\ last' = [inv EXCEPT !.result = outcome]
             /\ UNCHANGED <<accountPKPs, pkpToAccount, status, events, calls, stack,
                            chainid, self, balance, sample, client>>
        ELSE IF ~CallFunded(balance, value)
        THEN \* the call fails at once and the invocation reverts (lines 145-149)
             /\ last' = [inv EXCEPT !.result = "ExecutionFailed"]
             /\ UNCHANGED <<accountPKPs, pkpToAccount, status, events, calls, stack,
                            chainid, self, balance, sample, client>>
        ELSE /\ Room(1)
             /\ Len(stack) < MaxDepth
             /\ last' = [inv EXCEPT !.result = "calling"]
             /\ balance' = balance - value
             /\ status' = ENTERED
             /\ events' = Append(events,
                    PKPSignatureVerified(sender, operationHash,
                                         accountPKPs[sender].pkpEthAddress))
             /\ calls' = Append(calls, [target |-> target, value |-> value, data |-> data])
             /\ stack' = Append(stack, [invocation |-> inv, saved |-> Storage])
             /\ UNCHANGED <<accountPKPs, pkpToAccount, chainid, self, sample, client>>

\* a faulty revert: what the forwarded call wrote to the registry stays
RevertKeepingRegistry(saved, current) ==
    [saved EXCEPT !.accountPKPs = current.accountPKPs,
                  !.pkpToAccount = current.pkpToAccount]

\* revert (line 148): the state is again the one saved when the invocation
\* was entered, whatever the state is now
Revert(saved, current) == saved

\* the forwarded call of the innermost invocation returns (success, returnData)
\* and executeFromExecutor runs to its end (lines 145-153)
ForwardedCallReturns(success, returnData) ==
    /\ stack # <<>>
    /\ LET frame == stack[Len(stack)]
           inv == [frame.invocation EXCEPT !.callSuccess = success,
                                           !.callReturnData = returnData]
       IN  /\ stack' = SubSeq(stack, 1, Len(stack) - 1)
           /\ IF ~success
              THEN \* revert ExecutionFailed(): the state at entry is restored
                   /\ accountPKPs' = Revert(frame.saved, Storage).accountPKPs
                   /\ pkpToAccount' = Revert(frame.saved, Storage).pkpToAccount
                   /\ status' = Revert(frame.saved, Storage).status
                   /\ events' = Revert(frame.saved, Storage).events
                   /\ calls' = Revert(frame.saved, Storage).calls
                   /\ balance' = Revert(frame.saved, Storage).balance
                   /\ last' = [inv EXCEPT !.result = "ExecutionFailed"]
              ELSE /\ Room(1)
                   /\ events' = Append(events,
                        OperationExecuted(inv.sender, inv.target, inv.value, inv.data))
                   /\ status' = NonReentrantAfter(status)
                   /\ last' = [inv EXCEPT !.result = "ok", !.returnData = returnData]
                   /\ UNCHANGED <<accountPKPs, pkpToAccount, calls, balance>>
    /\ UNCHANGED <<chainid, self, sample, client>>

\* isModuleInstalled is called (lines 95-100)
isModuleInstalledCall(account, moduleTypeId) ==
    /\ last' = [NoInvocation EXCEPT !.op = "isModuleInstalled", !.depth = Len(stack),
                    !.account = account, !.moduleTypeId = moduleTypeId,
                    !.result = "ok",
                    !.view = <<isModuleInstalled(account, moduleTypeId)>>]
    /\ UNCHANGED <<accountPKPs, pkpToAccount, status, events, calls, stack,
                   chainid, self, balance, sample, client>>

\* getPKPInfo is called (lines 163-170)
getPKPInfoCall(account) ==
    /\ last' = [NoInvocation EXCEPT !.op = "getPKPInfo", !.depth = Len(stack),
                    !.account = account, !.result = "ok",
                    !.view = getPKPInfo(account)]
    /\ UNCHANGED <<accountPKPs, pkpToAccount, status, events, calls, stack,
                   chainid, self, balance, sample, client>>

\* getOperationHash is called by `sender` (lines 180-196)
getOperationHashCall(sender, account, target, value, data) ==
    /\ last' = [NoInvocation EXCEPT !.op = "getOperationHash", !.sender = sender,
                    !.depth = Len(stack), !.account = account, !.target = target,
                    !.value = value, !.data = data, !.result = "ok",
                    !.view = <<getOperationHash(account, target, value, data)>>]
    /\ UNCHANGED <<accountPKPs, pkpToAccount, status, events, calls, stack,
                   chainid, self, balance, sample, client>>

\* supportsInterface is called (lines 201-203)
supportsInterfaceCall(interfaceId) ==
    /\ last' = [NoInvocation EXCEPT !.op = "supportsInterface", !.depth = Len(stack),
                    !.interfaceId = interfaceId, !.result = "ok",
                    !.view = <<supportsInterface(interfaceId)>>]
    /\ UNCHANGED <<accountPKPs, pkpToAccount, status, events, calls, stack,
                   chainid, self, balance, sample, client>>

\* ether is forced onto the module's address (a selfdestruct naming it, a
\* block reward): the contract has no payable function, no receive and no
\* fallback (lines 12-204), so its balance grows in no other way
ForcedTransfer(amount) ==
    /\ balance + amount <= MaxBalance
    /\ balance' = balance + amount
    /\ last' = [NoInvocation EXCEPT !.op = "transfer", !.depth = Len(stack),
                    !.value = amount, !.result = "ok"]
    /\ UNCHANGED <<accountPKPs, pkpToAccount, status, events, calls, stack,
                   chainid, self, sample, client>>

Next ==
    \/ \E a \in Accounts, d \in InstallDatas : onInstall(a, d)
    \/ \E a \in Accounts : onUninstall(a)
    \/ \E a \in Accounts, t \in Targets, v \in Values, d \in Datas, s \in Signatures :
            executeFromExecutor(a, t, v, d, s)
    \/ \E r \in ReturnDatas : ForwardedCallReturns(TRUE, r)
    \/ ForwardedCallReturns(FALSE, <<>>)
    \/ \E a \in Accounts, m \in ModuleTypeIds : isModuleInstalledCall(a, m)
    \/ \E a \in Accounts : getPKPInfoCall(a)
    \/ \E c \in Accounts, a \in Accounts, t \in Targets, v \in Values, d \in Datas :
            getOperationHashCall(c, a, t, v, d)
    \/ \E i \in InterfaceIds : supportsInterfaceCall(i)

Spec == Init /\ [][Next]_vars

----------------------------------------------------------------------------
(* The module's balance *)

\* an account has installed a PKP and nothing else has happened; the module
\* holds whatever ether has been forced onto it
FundsInit ==
    \E a \in Accounts, k \in Keys, t \in TokenIds, b \in 0..MaxBalance :
        /\ accountPKPs = [x \in Accounts |->
                IF x = a THEN [pkpEthAddress |-> k, pkpTokenId |-> t, isInstalled |-> TRUE]
                ELSE EmptyPKPInfo]
        /\ pkpToAccount = [p \in PKPAddresses |-> IF p = k THEN a ELSE ZeroAddress]
        /\ status = NOT_ENTERED
        /\ events = <<ModuleInstalled(a, k, t)>>
        /\ calls = <<>>
        /\ stack = <<>>
        /\ last = [NoInvocation EXCEPT !.op = "onInstall", !.sender = a, !.decoded = TRUE,
                        !.pkpEthAddress = k, !.pkpTokenId = t, !.result = "ok"]
        /\ chainid = DeployedChain
        /\ self = DeployedAddress
        /\ balance = b
        /\ sample = NoSample
        /\ client = NoClient

\* the invocations of executeFromExecutor, and the ether forced onto the module
FundsNext ==
    \/ \E a \in Accounts, t \in Targets, v \in Values, d \in Datas, s \in Signatures :
            executeFromExecutor(a, t, v, d, s)
    \/ \E r \in ReturnDatas : ForwardedCallReturns(TRUE, r)
    \/ ForwardedCallReturns(FALSE, <<>>)
    \/ \E w \in Amounts : ForcedTransfer(w)

FundsSpec == FundsInit /\ [][FundsNext]_vars

----------------------------------------------------------------------------
(* The packed encoding on its own *)

RECURSIVE ByteStrings(_)
\* the byte strings of at most n bytes, each byte 0 or 1
ByteStrings(n) ==
    IF n = 0 THEN {<<>>}
    ELSE LET shorter == ByteStrings(n - 1)
         IN  shorter \cup {Append(b, x) : b \in shorter, x \in {0, 1}}

\* the operations packed: values of one and of two significant bytes, call
\* data of every length up to MaxDataLen
PackedAccounts == Accounts
PackedTargets == Targets \cup {DeployedAddress}
PackedValues == {0, 1, 257}
PackedDatas == ByteStrings(MaxDataLen)
Operations == PackedAccounts \X PackedTargets \X PackedValues \X PackedDatas

\* executeFromExecutor (lines 124-131) and getOperationHash (lines 187-194)
\* pack the operations x and y
PackPair(x, y) ==
    /\ sample = NoSample
    /\ sample' =
            [first |-> x, second |-> y,
             packed |-> <<EncodePackedOperation(x[1], x[2], x[3], x[4], chainid, self),
                          EncodePackedOperation(y[1], y[2], y[3], y[4], chainid, self)>>,
             queried |-> <<GetOperationHashPacked(x[1], x[2], x[3], x[4], chainid, self),
                           GetOperationHashPacked(y[1], y[2], y[3], y[4], chainid, self)>>]
    /\ UNCHANGED <<accountPKPs, pkpToAccount, status, events, calls, stack, last,
                   chainid, self, balance, client>>

EncodingNext == \E x \in Operations, y \in Operations : PackPair(x, y)

EncodingSpec == Init /\ [][EncodingNext]_vars

----------------------------------------------------------------------------
(* The TypeScript LitPKPExecutor object *)

\* the 32-byte hashes handed to signOperation: what getOperationHash returns
\* on this deployment
UserOpHashes ==
    {GetOperationHashes[a, t, v, d, DeployedChain, DeployedAddress] :
        a \in Accounts, t \in Targets, v \in Values, d \in Datas}

\* connect(): nothing when connected, else the node client connects, or throws
connect(isConnected, net) ==
    IF isConnected THEN [thrown |-> FALSE, isConnected |-> TRUE]
    ELSE IF net.connect THEN [thrown |-> FALSE, isConnected |-> TRUE]
    ELSE [thrown |-> TRUE, isConnected |-> FALSE]

\* disconnect()
disconnect(isConnected) == FALSE

\* the bytes of the hex string userOpHash, as an array (lines 500-501)
ToSignArray(userOpHash) == BigEndian(userOpHash, WordBytes)

\* litNodeClient.pkpSign({pubKey, sessionSigs, toSign}): the network signs the
\* 32 bytes it is given, as the digest, with the key of pubKey; r and s stand
\* for the two halves of the signature, which bind the key and the digest, and
\* are 0 when the result lacks them
pkpSign(pubKey, toSign, net) ==
    CASE net.signing = "null" -> [r |-> 0, s |-> 0, recid |-> 0]
      [] net.signing = "noR"  -> [r |-> 0, s |-> FromBigEndian(toSign), recid |-> net.recid]
      [] net.signing = "noS"  -> [r |-> pubKey, s |-> 0, recid |-> net.recid]
      [] OTHER -> [r |-> pubKey, s |-> FromBigEndian(toSign), recid |-> net.recid]

\* formatPKPSignature: r, s and v = recid + 27, in this order
formatPKPSignature(signingResult) ==
    <<signingResult.r, signingResult.s, signingResult.recid + 27>>

\* "0x"
EmptySignature == <<>>

\* what signOperation does on an object whose connection flag is isConnected:
\* whether it throws, the flag afterwards, the bytes submitted to the signer
\* and the value it resolves to
signOperation(isConnected, pkpPublicKey, userOpHash, net) ==
    LET connected == connect(isConnected, net)
        toSign == ToSignArray(userOpHash)
        signingResult == pkpSign(pkpPublicKey, toSign, net)
        failure == [thrown |-> FALSE, isConnected |-> TRUE, toSign |-> toSign,
                    signature |-> EmptySignature, success |-> FALSE]
    IN  IF connected.thrown
        THEN \* connect() is awaited before the try block (lines 472-474)
             [thrown |-> TRUE, isConnected |-> FALSE, toSign |-> <<>>,
              signature |-> EmptySignature, success |-> FALSE]
        ELSE IF ~net.session
        THEN [failure EXCEPT !.toSign = <<>>]
        ELSE IF net.signing = "throws"
        THEN failure
        ELSE IF signingResult.r = 0 \/ signingResult.s = 0
        THEN failure
        ELSE [failure EXCEPT !.signature = formatPKPSignature(signingResult),
                             !.success = TRUE]

\* the signature the module reads from the bytes it is sent: 65 bytes with
\* v of 27 or 28 are a well-formed signature
SignatureBytes(signature) ==
    IF signature = EmptySignature THEN Malformed("badLength")
    ELSE IF signature[3] \notin {27, 28} THEN Malformed("badV")
    ELSE Sign(signature[1], signature[2])

\* a LitPKPExecutor object has been constructed for a PKP
ExecutorInit ==
    /\ accountPKPs = [a \in Accounts |-> EmptyPKPInfo]
    /\ pkpToAccount = [p \in PKPAddresses |-> ZeroAddress]
    /\ status = NOT_ENTERED
    /\ events = <<>>
    /\ calls = <<>>
    /\ stack = <<>>
    /\ last = NoInvocation
    /\ chainid = DeployedChain
    /\ self = DeployedAddress
    /\ balance = 0
    /\ sample = NoSample
    /\ \E k \in Keys, t \in TokenIds :
            client = [NoClient EXCEPT !.pc = "object", !.pkpEthAddress = k,
                                      !.pkpTokenId = t]

\* connect() is called
connectCall(net) ==
    LET res == connect(client.isConnected, net)
    IN  /\ client.pc = "object"
        /\ client' = [client EXCEPT
                !.isConnected = res.isConnected,
                !.call = [NoCall EXCEPT !.method = "connect", !.net = net,
                                        !.thrown = res.thrown]]
        /\ UNCHANGED <<accountPKPs, pkpToAccount, status, events, calls, stack, last,
                       chainid, self, balance, sample>>

\* disconnect() is called
disconnectCall ==
    /\ client.pc = "object"
    /\ client' = [client EXCEPT
            !.isConnected = disconnect(client.isConnected),
            !.call = [NoCall EXCEPT !.method = "disconnect"]]
    /\ UNCHANGED <<accountPKPs, pkpToAccount, status, events, calls, stack, last,
                   chainid, self, balance, sample>>

\* signOperation(operation, chainId, userOpHash) is called
signOperationCall(userOpHash, net) ==
    LET res == signOperation(client.isConnected, client.pkpEthAddress, userOpHash, net)
    IN  /\ client.pc = "object"
        /\ client' = [client EXCEPT
                !.isConnected = res.isConnected,
                !.call = [method |-> "signOperation", net |-> net,
                          userOpHash |-> userOpHash, toSign |-> res.toSign,
                          thrown |-> res.thrown, signature |-> res.signature,
                          success |-> res.success]]
        /\ UNCHANGED <<accountPKPs, pkpToAccount, status, events, calls, stack, last,
                       chainid, self, balance, sample>>

ExecutorNext ==
    \/ \E n \in Nets : connectCall(n)
    \/ disconnectCall
    \/ \E h \in UserOpHashes, n \in Nets : signOperationCall(h, n)

ExecutorSpec == ExecutorInit /\ [][ExecutorNext]_vars

----------------------------------------------------------------------------
(* The demo: main of index.ts, from the connection of the LitPKPExecutor on *)

\* the chain has run the module for the client's account with `op` last
Mined(op) == last.op = op /\ last.sender = client.account

\* main after the install receipt: it goes on only when the status is success
AfterInstallReceipt(installStatus) ==
    IF installStatus = "success" THEN "hash" ELSE "done"

\* a faulty main: the execute transaction is sent whatever signOperation returned
AfterSigningUnchecked(round, success) ==
    IF round = 1 THEN "execute" ELSE "cleanup"

\* main after signOperation has resolved: the first operation is executed only
\* when it was signed, the second one is only signed
AfterSigning(round, success) ==
    IF round = 1 THEN (IF success THEN "execute" ELSE "done") ELSE "cleanup"

\* how the wait for the install receipt ends
ReceiptOutcomes == {"throws", "reverted", "receipt"}

\* a fresh PKP has been minted, the LitPKPExecutor constructed for it and a
\* fresh smart account created; another account may have installed another PKP
DemoInit ==
    \E a \in Accounts, k \in Keys, t \in TokenIds, o \in Targets, b \in BOOLEAN :
        LET other == CHOOSE x \in Accounts : x # a
            held == CHOOSE x \in Keys : x # k
        IN  /\ accountPKPs = [x \in Accounts |->
                    IF b /\ x = other
                    THEN [pkpEthAddress |-> held, pkpTokenId |-> t, isInstalled |-> TRUE]
                    ELSE EmptyPKPInfo]
            /\ pkpToAccount = [p \in PKPAddresses |->
                    IF b /\ p = held THEN other ELSE ZeroAddress]
            /\ status = NOT_ENTERED
            /\ events = IF b THEN <<ModuleInstalled(other, held, t)>> ELSE <<>>
            /\ calls = <<>>
            /\ stack = <<>>
            /\ last = IF b
                      THEN [NoInvocation EXCEPT !.op = "onInstall", !.sender = other,
                                !.decoded = TRUE, !.pkpEthAddress = held,
                                !.pkpTokenId = t, !.result = "ok"]
                      ELSE NoInvocation
            /\ chainid = DeployedChain
            /\ self = DeployedAddress
            /\ balance = 0
            /\ sample = NoSample
            /\ client = [NoClient EXCEPT !.pc = "connect", !.account = a,
                            !.pkpEthAddress = k, !.pkpTokenId = t,
                            !.operation = [to |-> o, value |-> 0, data |-> <<>>]]

\* await litExecutor.connect() (line 90); main ends when it throws
mainConnect(ok) ==
    LET net == [NoNet EXCEPT !.connect = ok]
        res == connect(client.isConnected, net)
    IN  /\ client.pc = "connect"
        /\ client' = [client EXCEPT
                !.pc = IF res.thrown THEN "fatal" ELSE "install",
                !.isConnected = res.isConnected,
                !.call = [NoCall EXCEPT !.method = "connect", !.net = net,
                                        !.thrown = res.thrown]]
        /\ UNCHANGED <<accountPKPs, pkpToAccount, status, events, calls, stack, last,
                       chainid, self, balance, sample>>

\* kernelClient.sendTransaction of the install (lines 166-171): the
\* transaction is sent, or the call throws and main returns
sendInstall(sent) ==
    /\ client.pc = "install"
    /\ client' = IF sent
                 THEN [client EXCEPT !.pc = "installSent",
                                     !.submitted = Append(@, "install")]
                 ELSE [client EXCEPT !.pc = "done", !.installStatus = "threw"]
    /\ UNCHANGED <<accountPKPs, pkpToAccount, status, events, calls, stack, last,
                   chainid, self, balance, sample>>

\* the install transaction reaches the module, once
installMined ==
    /\ client.pc = "installSent"
    /\ ~Mined("onInstall")
    /\ onInstall(client.account, AbiEncode(client.pkpEthAddress, client.pkpTokenId))

\* waitForTransactionReceipt and the test of its status (lines 175-189): the
\* wait throws, or the transaction failed before it reached the module, or the
\* receipt tells how the module's onInstall ended
installReceipt(outcome) ==
    LET installStatus ==
            CASE outcome = "throws" -> "threw"
              [] outcome = "reverted" -> "reverted"
              [] OTHER -> IF last.result = "ok" THEN "success" ELSE "reverted"
    IN  /\ client.pc = "installSent"
        /\ CASE outcome = "throws" -> TRUE
             [] outcome = "reverted" -> ~Mined("onInstall")
             [] OTHER -> Mined("onInstall")
        /\ client' = [client EXCEPT !.pc = AfterInstallReceipt(installStatus),
                                    !.installStatus = installStatus]
        /\ UNCHANGED <<accountPKPs, pkpToAccount, status, events, calls, stack, last,
                       chainid, self, balance, sample>>

\* the answer to the getOperationHash call of the operation is at hand
OperationHashAnswered ==
    /\ last.op = "getOperationHash"
    /\ last.account = client.account
    /\ last.target = client.operation.to
    /\ last.value = client.operation.value
    /\ last.data = client.operation.data

\* litPKPExecutorContract.getOperationHash(...) (lines 209-214 and 283-288), a
\* call without a sender; an answered call is not repeated, it changes nothing
callGetOperationHash ==
    /\ client.pc = "hash"
    /\ ~OperationHashAnswered
    /\ getOperationHashCall(ZeroAddress, client.account, client.operation.to,
                            client.operation.value, client.operation.data)

\* main receives the operation hash
readOperationHash ==
    /\ client.pc = "hash"
    /\ OperationHashAnswered
    /\ client' = [client EXCEPT !.pc = "sign", !.operationHash = last.view[1]]
    /\ UNCHANGED <<accountPKPs, pkpToAccount, status, events, calls, stack, last,
                   chainid, self, balance, sample>>

\* litExecutor.signOperation(operation, chain.id, operationHash) and the test
\* of its result (lines 220-231 and 292-303); main disconnects and returns when
\* the first signing failed
mainSign(net) ==
    LET res == signOperation(client.isConnected, client.pkpEthAddress,
                             client.operationHash, net)
        pc == IF res.thrown THEN "fatal" ELSE AfterSigning(client.round, res.success)
    IN  /\ client.pc = "sign"
        /\ client' = [client EXCEPT
                !.pc = pc,
                !.isConnected = IF pc = "done" THEN disconnect(res.isConnected)
                                ELSE res.isConnected,
                !.call = [method |-> "signOperation", net |-> net,
                          userOpHash |-> client.operationHash, toSign |-> res.toSign,
                          thrown |-> res.thrown, signature |-> res.signature,
                          success |-> res.success],
                !.signed = IF client.round # 1 THEN @
                           ELSE IF res.success THEN "success" ELSE "failure",
                !.signature = IF client.round = 1 THEN res.signature ELSE @]
        /\ UNCHANGED <<accountPKPs, pkpToAccount, status, events, calls, stack, last,
                       chainid, self, balance, sample>>

\* kernelClient.sendTransaction of the execute (lines 239-255): sent, or the
\* call throws and main goes on to the second operation
sendExecute(sent) ==
    /\ client.pc = "execute"
    /\ client' = IF sent
                 THEN [client EXCEPT !.pc = "executeSent",
                                     !.submitted = Append(@, "execute")]
                 ELSE [client EXCEPT !.pc = "hash", !.round = 2]
    /\ UNCHANGED <<accountPKPs, pkpToAccount, status, events, calls, stack, last,
                   chainid, self, balance, sample>>

\* the execute transaction reaches the module, once
executeMined ==
    /\ client.pc = "executeSent"
    /\ ~Mined("executeFromExecutor")
    /\ executeFromExecutor(client.account, client.operation.to, client.operation.value,
                           client.operation.data, SignatureBytes(client.signature))

\* waitForTransactionReceipt of the execute (lines 259-271): whatever the
\* status, and when the wait throws, main goes on to the second operation
executeReceipt(thrown) ==
    /\ client.pc = "executeSent"
    /\ IF thrown THEN TRUE ELSE Mined("executeFromExecutor")
    /\ client' = [client EXCEPT !.pc = "hash", !.round = 2]
    /\ UNCHANGED <<accountPKPs, pkpToAccount, status, events, calls, stack, last,
                   chainid, self, balance, sample>>

\* the cleanup at the end of main (lines 305-309)
cleanup ==
    /\ client.pc = "cleanup"
    /\ client' = [client EXCEPT !.pc = "done",
                                !.isConnected = disconnect(client.isConnected)]
    /\ UNCHANGED <<accountPKPs, pkpToAccount, status, events, calls, stack, last,
                   chainid, self, balance, sample>>

DemoNext ==
    \/ \E ok \in BOOLEAN : mainConnect(ok)
    \/ \E sent \in BOOLEAN : sendInstall(sent)
    \/ installMined
    \/ \E outcome \in ReceiptOutcomes : installReceipt(outcome)
    \/ callGetOperationHash
    \/ readOperationHash
    \/ \E n \in Nets : mainSign(n)
    \/ \E sent \in BOOLEAN : sendExecute(sent)
    \/ executeMined
    \/ \E thrown \in BOOLEAN : executeReceipt(thrown)
    \/ cleanup

DemoSpec == DemoInit /\ [][DemoNext]_vars

----------------------------------------------------------------------------
(* Properties *)

\* the transition is an invocation of `op` (not the return of a forwarded call)
Invoked(op) == last'.op = op /\ last'.depth = Len(stack) /\ Len(stack') >= Len(stack)
\* the invocation was made by a transaction, outside any forwarded call
TopLevel == stack = <<>>

\* the signature that the key of `key` makes, through the personal-message
\* prefix, for the operation (account, target, value, data) of a deployment
SignatureOver(key, account, target, value, data, chain, module) ==
    Sign(key, EthSignedMessageHashes[OperationHashes[account, target, value, data, chain, module]])

\* C1: a call is forwarded (an invocation of executeFromExecutor has its call
\* in flight) only if the invoking account was installed when it was invoked
\* and the signature is the registered signer's signature over the prefixed
\* digest of the operation hash of (account, target, value, data, chain id,
\* module address); the call forwarded is (target, value, data).
AuthorizationSafety ==
    /\ \A i \in DOMAIN stack :
        LET inv == stack[i].invocation
            reg == stack[i].saved.accountPKPs[inv.sender]
        IN  /\ reg.isInstalled
            /\ inv.signature = SignatureOver(reg.pkpEthAddress, inv.sender, inv.target,
                                             inv.value, inv.data, chainid, self)
            /\ Len(calls) > Len(stack[i].saved.calls)
            /\ calls[Len(stack[i].saved.calls) + 1] =
                    [target |-> inv.target, value |-> inv.value, data |-> inv.data]
    /\ Len(calls) = Cardinality({i \in DOMAIN events : events[i].name = "PKPSignatureVerified"})

AuthorizationSafetyWitness ==
    /\ stack # <<>>
    /\ last.op = "executeFromExecutor"
    /\ last.result = "calling"
    /\ calls # <<>>

\* C2: an executeFromExecutor invoked, while the forwarded call of an
\* invocation by account A is in flight, by A again fails, forwards no call and
\* leaves the registry, the reverse index, the gate, the event log and the
\* forwarded calls as they were.
ReentrancyRejection ==
    [][(/\ Invoked("executeFromExecutor")
        /\ stack # <<>>
        /\ last'.sender = stack[Len(stack)].invocation.sender)
       => /\ last'.result \notin {"ok", "calling"}
          /\ UNCHANGED <<accountPKPs, pkpToAccount, status, events, calls, stack>>]_vars

ReentrancyRejectionWitness ==
    /\ Len(stack) = 1
    /\ last.op = "executeFromExecutor"
    /\ last.depth = 1
    /\ last.sender = stack[1].invocation.sender
    /\ last.target = stack[1].invocation.target
    /\ last.value = stack[1].invocation.value
    /\ last.signature = stack[1].invocation.signature
    /\ last.result = "ReentrancyGuardReentrantCall"

\* C3: after a signature has authorized a successful executeFromExecutor, the
\* same (target, value, data, signature) submitted again by the same account
\* is not accepted a second time.
ReplayProtection ==
    (/\ TopLevel
     /\ last.op = "executeFromExecutor"
     /\ last.result = "ok")
    => ExecuteCheck(accountPKPs, status, chainid, self, last.sender, last.target,
                    last.value, last.data, last.signature) # "ok"

\* C4: while account A is installed with signer S, an onInstall with S by
\* another account B that is not installed fails with UnauthorizedPKP, and
\* isModuleInstalled(B, MODULE_TYPE) is false afterwards.
InstallUniqueness ==
    [][(/\ Invoked("onInstall")
        /\ last'.decoded
        /\ ~accountPKPs[last'.sender].isInstalled
        /\ \E a \in Accounts \ {last'.sender} :
                /\ accountPKPs[a].isInstalled
                /\ accountPKPs[a].pkpEthAddress = last'.pkpEthAddress)
       => /\ last'.result = "UnauthorizedPKP"
          /\ \A b \in Accounts :
                b = last'.sender => ~(isModuleInstalled(b, MODULE_TYPE))']_vars

InstallUniquenessWitness ==
    /\ last.op = "onInstall"
    /\ last.result = "UnauthorizedPKP"
    /\ ~isModuleInstalled(last.sender, MODULE_TYPE)
    /\ \E a \in Accounts \ {last.sender} :
            /\ isModuleInstalled(a, MODULE_TYPE)
            /\ accountPKPs[a].pkpEthAddress = last.pkpEthAddress

\* C5: an onInstall by an account that is installed fails with
\* ModuleAlreadyInstalled, whatever the signer, and leaves the registry and the
\* reverse index as they were.
DoubleInstall ==
    [][(/\ Invoked("onInstall")
        /\ last'.decoded
        /\ accountPKPs[last'.sender].isInstalled)
       => /\ last'.result = "ModuleAlreadyInstalled"
          /\ UNCHANGED <<accountPKPs, pkpToAccount, events>>]_vars

\* the second install names a different signer, one that nobody has claimed
DoubleInstallWitness ==
    /\ last.op = "onInstall"
    /\ last.result = "ModuleAlreadyInstalled"
    /\ accountPKPs[last.sender].isInstalled
    /\ accountPKPs[last.sender].pkpEthAddress # last.pkpEthAddress
    /\ pkpToAccount[last.pkpEthAddress] = ZeroAddress

\* the state is the one a successful onUninstall by `account` has just left,
\* and `signer` is the signer it removed
JustUninstalled(account, signer) ==
    /\ last.op = "onUninstall"
    /\ last.result = "ok"
    /\ last.sender = account
    /\ events # <<>>
    /\ events[Len(events)] = ModuleUninstalled(account, signer)

\* C6 as stated: after a successful onUninstall by A, which was installed with
\* S, getPKPInfo(A) is the default record, pkpToAccount[S] is empty, and an
\* onInstall with S that any other account B makes next succeeds.
UninstallClearsForAnyAccount ==
    [][/\ (Invoked("onUninstall") /\ last'.result = "ok")
            => \A a \in Accounts :
                a = last'.sender
                => /\ getPKPInfo(a)' = <<ZeroAddress, 0, FALSE>>
                   /\ pkpToAccount'[accountPKPs[a].pkpEthAddress] = ZeroAddress
       /\ \A a \in Accounts, s \in PKPAddresses :
            (/\ JustUninstalled(a, s)
             /\ Invoked("onInstall")
             /\ last'.decoded
             /\ last'.sender # a
             /\ last'.pkpEthAddress = s)
            => last'.result = "ok"]_vars

\* C6, amended: ... and an onInstall with S that any other account B which is
\* not itself installed makes next succeeds.
UninstallClears ==
    [][/\ (Invoked("onUninstall") /\ last'.result = "ok")
            => \A a \in Accounts :
                a = last'.sender
                => /\ getPKPInfo(a)' = <<ZeroAddress, 0, FALSE>>
                   /\ pkpToAccount'[accountPKPs[a].pkpEthAddress] = ZeroAddress
       /\ \A a \in Accounts, s \in PKPAddresses :
            (/\ JustUninstalled(a, s)
             /\ Invoked("onInstall")
             /\ last'.decoded
             /\ last'.sender # a
             /\ ~accountPKPs[last'.sender].isInstalled
             /\ last'.pkpEthAddress = s)
            => /\ last'.result = "ok"
               /\ accountPKPs'[last'.sender] =
                    [pkpEthAddress |-> s, pkpTokenId |-> last'.pkpTokenId,
                     isInstalled |-> TRUE]
               /\ pkpToAccount'[s] = last'.sender]_vars

\* another account has taken over the signer that was uninstalled
UninstallClearsWitness ==
    /\ last.op = "onInstall"
    /\ last.result = "ok"
    /\ Len(events) >= 3
    /\ events[Len(events)] =
            ModuleInstalled(last.sender, last.pkpEthAddress, last.pkpTokenId)
    /\ events[Len(events) - 1].name = "ModuleUninstalled"
    /\ events[Len(events) - 1].pkpAddress = last.pkpEthAddress
    /\ events[Len(events) - 1].account # last.sender
    /\ getPKPInfo(events[Len(events) - 1].account) = <<ZeroAddress, 0, FALSE>>

\* C7: for an account that is not installed, an onUninstall and an
\* executeFromExecutor made outside any forwarded call fail with
\* ModuleNotInstalled, whatever the signature, and change nothing: registry,
\* reverse index, event log, forwarded calls.
NotInstalledFails ==
    [][(/\ TopLevel
        /\ (Invoked("onUninstall") \/ Invoked("executeFromExecutor"))
        /\ ~accountPKPs[last'.sender].isInstalled)
       => /\ last'.result = "ModuleNotInstalled"
          /\ UNCHANGED <<accountPKPs, pkpToAccount, status, events, calls, stack>>]_vars

\* an account that is not installed presented a malformed signature
NotInstalledFailsWitness ==
    /\ TopLevel
    /\ last.op = "executeFromExecutor"
    /\ last.depth = 0
    /\ ~accountPKPs[last.sender].isInstalled
    /\ last.signature \in MalformedSignatures
    /\ last.result = "ModuleNotInstalled"

\* C8: for an account installed with signer S, an executeFromExecutor made
\* outside any forwarded call with the signature of another key over the
\* correct prefixed digest fails with InvalidSignature, forwards no call and
\* emits no event.
SignatureRejection ==
    [][(/\ TopLevel
        /\ Invoked("executeFromExecutor")
        /\ accountPKPs[last'.sender].isInstalled
        /\ \E k \in Keys \ {accountPKPs[last'.sender].pkpEthAddress} :
                last'.signature = SignatureOver(k, last'.sender, last'.target, last'.value,
                                                last'.data, chainid, self))
       => /\ last'.result = "InvalidSignature"
          /\ UNCHANGED <<accountPKPs, pkpToAccount, status, events, calls, stack>>]_vars

SignatureRejectionWitness ==
    /\ TopLevel
    /\ last.op = "executeFromExecutor"
    /\ last.depth = 0
    /\ accountPKPs[last.sender].isInstalled
    /\ accountPKPs[last.sender].pkpEthAddress \in Keys
    /\ \E k \in Keys \ {accountPKPs[last.sender].pkpEthAddress} :
            last.signature = SignatureOver(k, last.sender, last.target, last.value,
                                            last.data, chainid, self)
    /\ last.result = "InvalidSignature"

\* C9: for an account A installed with signer S, an executeFromExecutor(T, v, d,
\* sig) made outside any forwarded call with S's signature over the prefixed
\* digest of getOperationHash(A, T, v, d) forwards the call (T, v, d) once (a
\* call of more value than the module holds fails at once); when that call
\* returns success, the invocation returns the call's return data, forwards no
\* other call and emits OperationExecuted(A, T, v, d).
SignatureRoundTrip ==
    [][/\ (/\ TopLevel
           /\ Invoked("executeFromExecutor")
           /\ accountPKPs[last'.sender].isInstalled
           /\ last'.signature =
                Sign(accountPKPs[last'.sender].pkpEthAddress,
                     EthSignedMessageHashes[getOperationHash(last'.sender, last'.target,
                                                             last'.value, last'.data)]))
          => IF last'.value <= balance
             THEN /\ last'.result = "calling"
                  /\ Len(stack') = 1
                  /\ calls' = Append(calls, [target |-> last'.target,
                                             value |-> last'.value, data |-> last'.data])
             ELSE /\ last'.result = "ExecutionFailed"
                  /\ UNCHANGED <<stack, calls, events>>
       /\ (/\ Len(stack) = 1
           /\ stack' = <<>>
           /\ last'.callSuccess)
          => /\ last'.op = "executeFromExecutor"
             /\ last'.result = "ok"
             /\ last'.returnData = last'.callReturnData
             /\ calls' = calls
             /\ events' = Append(events,
                    [name |-> "OperationExecuted",
                     account |-> stack[1].invocation.sender,
                     target |-> stack[1].invocation.target,
                     value |-> stack[1].invocation.value,
                     data |-> stack[1].invocation.data])]_vars

\* an invocation with a value and return data has completed
SignatureRoundTripWitness ==
    /\ TopLevel
    /\ last.op = "executeFromExecutor"
    /\ last.result = "ok"
    /\ last.value # 0
    /\ last.returnData # <<>>
    /\ events[Len(events)].name = "OperationExecuted"
    /\ calls[Len(calls)] = [target |-> last.target, value |-> last.value, data |-> last.data]

\* C10: a signature that executeFromExecutor has accepted for (A, T, v, d) is
\* rejected with InvalidSignature for the same (A, T, v, d) by a module with
\* another chain id or another address at which A is registered with the same
\* signer.
CrossDeploymentRejection ==
    \A i \in DOMAIN stack :
        LET inv == stack[i].invocation
        IN  \A c \in ChainIds, m \in ModuleAddresses :
                (c # chainid \/ m # self)
                => ExecuteCheck(stack[i].saved.accountPKPs, NOT_ENTERED, c, m, inv.sender,
                                inv.target, inv.value, inv.data, inv.signature)
                    = "InvalidSignature"

CrossDeploymentRejectionWitness ==
    /\ stack # <<>>
    /\ ExecuteCheck(stack[1].saved.accountPKPs, NOT_ENTERED, chainid, self,
                    stack[1].invocation.sender, stack[1].invocation.target,
                    stack[1].invocation.value, stack[1].invocation.data,
                    stack[1].invocation.signature) = "ok"
    /\ \E c \in ChainIds, m \in ModuleAddresses : c # chainid /\ m # self

\* C11: getOperationHash(A, T, v, d), whoever calls it and in whatever state,
\* is the hash of the packed (A, T, v, d, chain id, module address); and the
\* operation hash that an executeFromExecutor by A with (T, v, d) reports in
\* PKPSignatureVerified, and whose prefixed digest the accepted signature
\* signs, is getOperationHash(A, T, v, d).
HashConsistency ==
    /\ last.op = "getOperationHash"
        => last.view = <<OperationHash(last.account, last.target, last.value,
                                       last.data, chainid, self)>>
    /\ \A i \in DOMAIN stack :
        LET inv == stack[i].invocation
            verified == events[Len(stack[i].saved.events) + 1]
            queried == getOperationHash(inv.sender, inv.target, inv.value, inv.data)
        IN  /\ verified.name = "PKPSignatureVerified"
            /\ verified.operationHash = queried
            /\ inv.signature.digest = EthSignedMessageHash(queried)

\* inside a forwarded call, another account asks for the hash of the operation
\* in flight and gets the hash that PKPSignatureVerified reported
HashConsistencyWitness ==
    /\ Len(stack) = 1
    /\ last.op = "getOperationHash"
    /\ last.sender # last.account
    /\ last.account = stack[1].invocation.sender
    /\ last.target = stack[1].invocation.target
    /\ last.value = stack[1].invocation.value
    /\ last.data = stack[1].invocation.data
    /\ accountPKPs[last.sender].isInstalled
    /\ events[Len(stack[1].saved.events) + 1].name = "PKPSignatureVerified"
    /\ last.view = <<events[Len(stack[1].saved.events) + 1].operationHash>>

\* C12: with the chain id and the module address fixed, two different
\* operations (account, target, value, data) are never packed to the same byte
\* string, by executeFromExecutor or by getOperationHash.
UnambiguousEncoding ==
    sample.first # sample.second
    => /\ sample.packed[1] # sample.packed[2]
       /\ sample.queried[1] # sample.queried[2]

\* two operations whose value and call data are the same bytes when the value
\* is not padded to its 32 bytes
UnambiguousEncodingWitness ==
    /\ sample.first = <<1, 5, 1, <<1>>>>
    /\ sample.second = <<1, 5, 257, <<>>>>
    /\ Len(sample.packed[1]) = Len(sample.packed[2]) + 1
    /\ sample.packed[1] # sample.packed[2]

\* C13: for an installed account, an executeFromExecutor made outside any
\* forwarded call with a signature from which no signer can be recovered
\* (wrong length, s in the upper half, invalid recovery id) fails with
\* InvalidSignature, the error of a signature by another signer, and forwards
\* no call.
MalformedSignatureRejection ==
    [][(/\ TopLevel
        /\ Invoked("executeFromExecutor")
        /\ accountPKPs[last'.sender].isInstalled
        /\ last'.signature \in MalformedSignatures)
       => /\ last'.result = "InvalidSignature"
          /\ UNCHANGED <<accountPKPs, pkpToAccount, status, events, calls, stack>>]_vars

\* C14: every invocation of onInstall, onUninstall and executeFromExecutor,
\* made by a transaction or inside a forwarded call, succeeds (or has its
\* forwarded call in flight) or fails with one of ModuleAlreadyInstalled,
\* UnauthorizedPKP, ModuleNotInstalled, InvalidSignature, ExecutionFailed.
ClosedErrorTaxonomy ==
    last.op \in {"onInstall", "onUninstall", "executeFromExecutor"}
    => last.result \in {"ok", "calling", "ModuleAlreadyInstalled", "UnauthorizedPKP",
                        "ModuleNotInstalled", "InvalidSignature", "ExecutionFailed"}

\* the number of events of that name in the log
Count(name) == Cardinality({i \in DOMAIN events : events[i].name = name})

\* C15: when the forwarded call of an executeFromExecutor fails, the
\* invocation fails with ExecutionFailed and the registry, the reverse index,
\* the event log and the forwarded calls are those of the moment it was
\* invoked: its PKPSignatureVerified is gone, there is no OperationExecuted,
\* and nothing that the forwarded call did stays.  Once no call is in flight,
\* every PKPSignatureVerified in the log has its OperationExecuted and its
\* forwarded call.
FailureAtomicity ==
    [][/\ (/\ stack # <<>>
           /\ Len(stack') < Len(stack)
           /\ ~last'.callSuccess)
          => /\ last'.op = "executeFromExecutor"
             /\ last'.result = "ExecutionFailed"
             /\ last'.sender = stack[Len(stack)].invocation.sender
             /\ accountPKPs' = stack[Len(stack)].saved.accountPKPs
             /\ pkpToAccount' = stack[Len(stack)].saved.pkpToAccount
             /\ events' = stack[Len(stack)].saved.events
             /\ calls' = stack[Len(stack)].saved.calls
       /\ stack' = <<>>
          => /\ Count("PKPSignatureVerified")' = Count("OperationExecuted")'
             /\ Len(calls') = Count("OperationExecuted")']_vars

\* an invocation has failed with ExecutionFailed and left no event and no call
FailureAtomicityWitness ==
    /\ TopLevel
    /\ last.op = "executeFromExecutor"
    /\ last.result = "ExecutionFailed"
    /\ ~last.callSuccess
    /\ accountPKPs[last.sender].isInstalled
    /\ last.signature.signer = accountPKPs[last.sender].pkpEthAddress
    /\ events = <<ModuleInstalled(last.sender, accountPKPs[last.sender].pkpEthAddress,
                                  accountPKPs[last.sender].pkpTokenId)>>
    /\ calls = <<>>

\* the log's latest ModuleInstalled or ModuleUninstalled of the account is a
\* ModuleInstalled
LatestIsInstall(account) ==
    \E i \in DOMAIN events :
        /\ events[i].name = "ModuleInstalled"
        /\ events[i].account = account
        /\ \A j \in DOMAIN events :
                (j > i /\ events[j].name \in {"ModuleInstalled", "ModuleUninstalled"})
                => events[j].account # account

\* C16: an account's isInstalled flag is true exactly when the latest
\* successful onInstall or onUninstall of the account (the latest of its
\* ModuleInstalled and ModuleUninstalled events) is an onInstall; an invocation
\* that fails leaves the flags as they were when it was invoked.
InstalledFlag ==
    [][/\ \A a \in Accounts : accountPKPs'[a].isInstalled <=> LatestIsInstall(a)'
       /\ (/\ \/ Invoked("onInstall")
               \/ Invoked("onUninstall")
               \/ Invoked("executeFromExecutor")
           /\ last'.result \notin {"ok", "calling"})
          => \A a \in Accounts :
                accountPKPs'[a].isInstalled = accountPKPs[a].isInstalled
       /\ (/\ Len(stack') < Len(stack)
           /\ last'.result # "ok")
          => \A a \in Accounts :
                accountPKPs'[a].isInstalled =
                    stack[Len(stack)].saved.accountPKPs[a].isInstalled]_vars

\* an account installed, uninstalled and installed again, and then failed to
\* install once more
InstalledFlagWitness ==
    /\ last.op = "onInstall"
    /\ last.result = "ModuleAlreadyInstalled"
    /\ Len(events) = 3
    /\ events[1].name = "ModuleInstalled"
    /\ events[2].name = "ModuleUninstalled"
    /\ events[3].name = "ModuleInstalled"
    /\ \A i \in 1..3 : events[i].account = last.sender
    /\ accountPKPs[last.sender].isInstalled
    /\ \A a \in Accounts \ {last.sender} : ~accountPKPs[a].isInstalled

\* C17: in every reachable state, inside a forwarded call too, no two
\* installed accounts have the same signer, pkpToAccount[S] = A exactly when A
\* is installed with signer S, and pkpToAccount[S] is empty for a signer that
\* no installed account has.
ReverseIndex ==
    /\ \A a \in Accounts, b \in Accounts :
            (/\ accountPKPs[a].isInstalled
             /\ accountPKPs[b].isInstalled
             /\ accountPKPs[a].pkpEthAddress = accountPKPs[b].pkpEthAddress)
            => a = b
    /\ \A s \in PKPAddresses, a \in Accounts :
            pkpToAccount[s] = a
            <=> (accountPKPs[a].isInstalled /\ accountPKPs[a].pkpEthAddress = s)
    /\ \A s \in PKPAddresses :
            (\A a \in Accounts :
                ~(accountPKPs[a].isInstalled /\ accountPKPs[a].pkpEthAddress = s))
            => pkpToAccount[s] = ZeroAddress

\* both accounts are installed, the second one since a forwarded call of the
\* first that is still in flight
ReverseIndexWitness ==
    /\ Len(stack) = 1
    /\ last.op = "onInstall"
    /\ last.depth = 1
    /\ last.result = "ok"
    /\ last.sender # stack[1].invocation.sender
    /\ \A a \in Accounts : accountPKPs[a].isInstalled
    /\ pkpToAccount[last.pkpEthAddress] = last.sender
    /\ pkpToAccount[accountPKPs[stack[1].invocation.sender].pkpEthAddress]
            = stack[1].invocation.sender

\* C18: an onInstall by an account that is installed, naming a signer that
\* another account has claimed, fails with ModuleAlreadyInstalled and not with
\* UnauthorizedPKP.
InstallCheckOrder ==
    [][(/\ Invoked("onInstall")
        /\ last'.decoded
        /\ accountPKPs[last'.sender].isInstalled
        /\ pkpToAccount[last'.pkpEthAddress] \in Accounts \ {last'.sender})
       => last'.result = "ModuleAlreadyInstalled"]_vars

\* both conditions held: the account is installed and the signer it named is
\* the other account's
InstallCheckOrderWitness ==
    /\ last.op = "onInstall"
    /\ last.decoded
    /\ last.result = "ModuleAlreadyInstalled"
    /\ accountPKPs[last.sender].isInstalled
    /\ pkpToAccount[last.pkpEthAddress] \in Accounts \ {last.sender}
    /\ accountPKPs[pkpToAccount[last.pkpEthAddress]].pkpEthAddress = last.pkpEthAddress

\* the registry and the reverse index without the registration of `account`
WithoutRecord(pkps, account) == [pkps EXCEPT ![account] = EmptyPKPInfo]
WithoutEntry(pkps, p2a, account) ==
    IF pkps[account].isInstalled
    THEN [p2a EXCEPT ![pkps[account].pkpEthAddress] = ZeroAddress]
    ELSE p2a

\* C19: an onInstall, onUninstall or executeFromExecutor that account A makes
\* as a transaction, whether it succeeds or fails, leaves the record of every
\* other account B and the reverse-index entry of B's signer as they were; and
\* the outcome of what B invokes is the one it would have without A's
\* registration, except that B's onInstall with a signer that A has claimed
\* fails.
CrossAccountIsolation ==
    [][/\ (/\ TopLevel
           /\ \/ Invoked("onInstall")
              \/ Invoked("onUninstall")
              \/ Invoked("executeFromExecutor"))
          => \A b \in Accounts \ {last'.sender} :
                /\ accountPKPs'[b] = accountPKPs[b]
                /\ accountPKPs[b].isInstalled
                    => pkpToAccount'[accountPKPs[b].pkpEthAddress]
                        = pkpToAccount[accountPKPs[b].pkpEthAddress]
                /\ (Invoked("onUninstall") /\ last'.sender \in Accounts \ {b})
                    => last'.result = UninstallCheck(WithoutRecord(accountPKPs, b),
                                                     last'.sender)
                /\ (Invoked("executeFromExecutor") /\ last'.sender \in Accounts \ {b})
                    => (IF last'.result \in {"calling", "ExecutionFailed"} THEN "ok"
                        ELSE last'.result)
                        = ExecuteCheck(WithoutRecord(accountPKPs, b), status, chainid, self,
                                       last'.sender, last'.target, last'.value, last'.data,
                                       last'.signature)
                /\ (Invoked("onInstall") /\ last'.decoded
                        /\ last'.sender \in Accounts \ {b})
                    => IF /\ accountPKPs[b].isInstalled
                          /\ accountPKPs[b].pkpEthAddress = last'.pkpEthAddress
                       THEN last'.result \in {"UnauthorizedPKP", "ModuleAlreadyInstalled"}
                       ELSE last'.result =
                                InstallCheck(WithoutRecord(accountPKPs, b),
                                             WithoutEntry(accountPKPs, pkpToAccount, b),
                                             last'.sender, last'.pkpEthAddress)
       /\ (Len(stack) = 1 /\ stack' = <<>>)
          => LET before == IF last'.result = "ok" THEN Storage ELSE stack[1].saved
             IN  \A b \in Accounts \ {last'.sender} :
                    /\ accountPKPs'[b] = before.accountPKPs[b]
                    /\ before.accountPKPs[b].isInstalled
                        => pkpToAccount'[before.accountPKPs[b].pkpEthAddress]
                            = before.pkpToAccount[before.accountPKPs[b].pkpEthAddress]]_vars

\* an account has uninstalled as a transaction while the other account is
\* installed: the other account's record and reverse-index entry stand
CrossAccountIsolationWitness ==
    /\ TopLevel
    /\ last.op = "onUninstall"
    /\ last.result = "ok"
    /\ ~accountPKPs[last.sender].isInstalled
    /\ \E b \in Accounts \ {last.sender} :
            /\ accountPKPs[b].isInstalled
            /\ accountPKPs[b].pkpEthAddress \in Keys
            /\ pkpToAccount[accountPKPs[b].pkpEthAddress] = b

\* C20: the registry and the reverse index are written by onInstall and
\* onUninstall only.  The steps of executeFromExecutor itself (up to the
\* forwarded call, and after its return), isModuleInstalled, getPKPInfo,
\* getOperationHash and supportsInterface leave both as they are, whether they
\* succeed or fail; a failed executeFromExecutor leaves them as they were when
\* it was invoked, whatever the forwarded call invoked.
RegistryFrame ==
    [][/\ (\/ Invoked("executeFromExecutor")
           \/ Invoked("isModuleInstalled")
           \/ Invoked("getPKPInfo")
           \/ Invoked("getOperationHash")
           \/ Invoked("supportsInterface"))
          => UNCHANGED <<accountPKPs, pkpToAccount>>
       /\ (Len(stack') < Len(stack) /\ last'.result = "ok")
          => UNCHANGED <<accountPKPs, pkpToAccount>>
       /\ (Len(stack') < Len(stack) /\ last'.result # "ok")
          => /\ accountPKPs' = stack[Len(stack)].saved.accountPKPs
             /\ pkpToAccount' = stack[Len(stack)].saved.pkpToAccount
       /\ (Len(stack') >= Len(stack)
            /\ (accountPKPs' # accountPKPs \/ pkpToAccount' # pkpToAccount))
          => /\ Invoked("onInstall") \/ Invoked("onUninstall")
             /\ last'.result = "ok"]_vars

\* an executeFromExecutor has run to its end and the registration it used
\* stands
RegistryFrameWitness ==
    /\ TopLevel
    /\ last.op = "executeFromExecutor"
    /\ last.result = "ok"
    /\ events = <<ModuleInstalled(last.sender, last.signature.signer, 1),
                  PKPSignatureVerified(last.sender,
                        getOperationHash(last.sender, last.target, last.value, last.data),
                        last.signature.signer),
                  OperationExecuted(last.sender, last.target, last.value, last.data)>>
    /\ getPKPInfo(last.sender) = <<last.signature.signer, 1, TRUE>>
    /\ pkpToAccount[last.signature.signer] = last.sender

\* C21: isModuleInstalled(account, moduleTypeId) always returns, changes
\* nothing, returns false for a moduleTypeId other than MODULE_TYPE (2), also
\* for an installed account, and returns the account's isInstalled flag for
\* MODULE_TYPE.
InstalledQuery ==
    [][Invoked("isModuleInstalled")
       => /\ last'.result = "ok"
          /\ last'.view = <<(/\ last'.moduleTypeId = MODULE_TYPE
                             /\ accountPKPs[last'.account].isInstalled)>>
          /\ UNCHANGED <<accountPKPs, pkpToAccount, status, events, calls, stack>>]_vars

\* an installed account was asked about as a validator (type 1)
InstalledQueryWitness ==
    /\ last.op = "isModuleInstalled"
    /\ last.moduleTypeId # MODULE_TYPE
    /\ accountPKPs[last.account].isInstalled
    /\ last.view = <<FALSE>>

\* the log, in every state: an invocation whose call is in flight has emitted
\* its PKPSignatureVerified, with the registered signer, and no
\* OperationExecuted follows it yet; every OperationExecuted has before it the
\* PKPSignatureVerified of its operation, and up to any point of the log there
\* are at least as many PKPSignatureVerified as OperationExecuted
OrderedLog ==
    /\ \A i \in DOMAIN stack :
        LET inv == stack[i].invocation
            k == Len(stack[i].saved.events) + 1
        IN  /\ k \in DOMAIN events
            /\ events[k] = [name |-> "PKPSignatureVerified", account |-> inv.sender,
                            operationHash |-> OperationHashes[inv.sender, inv.target,
                                                inv.value, inv.data, chainid, self],
                            pkpAddress |->
                                stack[i].saved.accountPKPs[inv.sender].pkpEthAddress]
            /\ \A j \in DOMAIN events :
                    j > k => events[j].name # "OperationExecuted"
    /\ \A j \in DOMAIN events :
        events[j].name = "OperationExecuted"
        => /\ \E i \in 1..(j - 1) :
                /\ events[i].name = "PKPSignatureVerified"
                /\ events[i].account = events[j].account
                /\ events[i].operationHash =
                        OperationHashes[events[j].account, events[j].target,
                                        events[j].value, events[j].data, chainid, self]
           /\ Cardinality({i \in 1..j : events[i].name = "PKPSignatureVerified"})
                >= Cardinality({i \in 1..j : events[i].name = "OperationExecuted"})

\* C23: a successful executeFromExecutor by A emits PKPSignatureVerified(A,
\* operation hash, registered signer) before its forwarded call starts and
\* OperationExecuted(A, target, value, data) when the call has returned; in the
\* log an OperationExecuted never comes without the PKPSignatureVerified of
\* its invocation before it.
EventOrdering ==
    [][/\ OrderedLog'
       /\ (Invoked("executeFromExecutor") /\ last'.result = "calling")
          => /\ Len(events') = Len(events) + 1
             /\ events'[Len(events')].name = "PKPSignatureVerified"
             /\ Len(calls') = Len(calls) + 1
       /\ (Len(stack') < Len(stack) /\ last'.result = "ok")
          => events' = Append(events,
                [name |-> "OperationExecuted",
                 account |-> stack[Len(stack)].invocation.sender,
                 target |-> stack[Len(stack)].invocation.target,
                 value |-> stack[Len(stack)].invocation.value,
                 data |-> stack[Len(stack)].invocation.data])]_vars

\* the log of an installation and one successful invocation, in order
EventOrderingWitness ==
    /\ TopLevel
    /\ Len(events) = 3
    /\ events[1].name = "ModuleInstalled"
    /\ events[2].name = "PKPSignatureVerified"
    /\ events[2].pkpAddress = events[1].pkpAddress
    /\ events[2].pkpAddress \in Keys
    /\ events[3].name = "OperationExecuted"
    /\ events[3].account = events[2].account
    /\ last.op = "executeFromExecutor"
    /\ last.result = "ok"

\* C24: the gate is closed from the moment a forwarded call is made until it
\* returns, and open whenever no invocation of executeFromExecutor is in
\* progress: after one that succeeded and after one that failed with
\* ModuleNotInstalled, InvalidSignature or ExecutionFailed.  An
\* executeFromExecutor made as a transaction is therefore never rejected by
\* the gate.
GateDiscipline ==
    [][/\ (stack' # <<>>) => status' = ENTERED
       /\ (stack' = <<>>) => status' = NOT_ENTERED
       /\ (Invoked("executeFromExecutor") /\ last'.result = "calling")
          => status = NOT_ENTERED /\ status' = ENTERED
       /\ (Invoked("executeFromExecutor") /\ TopLevel)
          => last'.result # "ReentrancyGuardReentrantCall"]_vars

\* a second invocation has passed the gate after a first one ran to its end
GateDisciplineWitness ==
    /\ Len(stack) = 1
    /\ status = ENTERED
    /\ last.op = "executeFromExecutor"
    /\ last.result = "calling"
    /\ last.depth = 0
    /\ \E i \in DOMAIN stack[1].saved.events :
            stack[1].saved.events[i].name = "OperationExecuted"

\* C26: while the forwarded call of an invocation by account A is in flight,
\* an executeFromExecutor by another account B, installed and presenting its
\* signer's signature for the operation, is rejected by the gate
\* (ReentrancyGuardReentrantCall) and forwards no call.
ModuleWideGate ==
    [][(/\ Invoked("executeFromExecutor")
        /\ stack # <<>>
        /\ last'.sender # stack[Len(stack)].invocation.sender
        /\ accountPKPs[last'.sender].isInstalled
        /\ last'.signature =
                SignatureOver(accountPKPs[last'.sender].pkpEthAddress, last'.sender,
                              last'.target, last'.value, last'.data, chainid, self))
       => /\ last'.result = "ReentrancyGuardReentrantCall"
          /\ UNCHANGED <<accountPKPs, pkpToAccount, status, events, calls, stack>>]_vars

\* the other account, installed with its own signer, was turned away
ModuleWideGateWitness ==
    /\ Len(stack) = 1
    /\ last.op = "executeFromExecutor"
    /\ last.depth = 1
    /\ last.sender # stack[1].invocation.sender
    /\ accountPKPs[last.sender].isInstalled
    /\ accountPKPs[last.sender].pkpEthAddress \in Keys
    /\ last.signature =
            SignatureOver(accountPKPs[last.sender].pkpEthAddress, last.sender,
                          last.target, last.value, last.data, chainid, self)
    /\ last.result = "ReentrancyGuardReentrantCall"
    /\ Len(calls) = 1

\* C27: onUninstall is not behind the gate: when, inside the forwarded call of
\* an executeFromExecutor by A, A invokes onUninstall, the onUninstall
\* succeeds; when the call then returns success the outer invocation succeeds
\* and emits OperationExecuted for A, A is not installed afterwards, and no
\* installed account or reverse-index entry is left inconsistent.
NestedUninstall ==
    [][/\ (/\ Invoked("onUninstall")
           /\ stack # <<>>
           /\ last'.sender = stack[Len(stack)].invocation.sender
           /\ accountPKPs[last'.sender].isInstalled)
          => /\ last'.result = "ok"
             /\ ~accountPKPs'[last'.sender].isInstalled
       /\ (/\ Len(stack) = 1
           /\ stack' = <<>>
           /\ last'.callSuccess
           /\ ~accountPKPs[stack[1].invocation.sender].isInstalled)
          => /\ last'.result = "ok"
             /\ events'[Len(events')] =
                    OperationExecuted(last'.sender, last'.target, last'.value, last'.data)
             /\ ~accountPKPs'[last'.sender].isInstalled
             /\ \A s \in PKPAddresses : pkpToAccount'[s] # last'.sender
             /\ \A s \in PKPAddresses, a \in Accounts :
                    pkpToAccount'[s] = a
                    <=> (accountPKPs'[a].isInstalled /\ accountPKPs'[a].pkpEthAddress = s)]_vars

\* the invocation of an account that uninstalled inside its own forwarded call
\* has succeeded
NestedUninstallWitness ==
    /\ TopLevel
    /\ last.op = "executeFromExecutor"
    /\ last.result = "ok"
    /\ ~accountPKPs[last.sender].isInstalled
    /\ Len(events) = 4
    /\ events[1].name = "ModuleInstalled"
    /\ events[2].name = "PKPSignatureVerified"
    /\ events[3] = ModuleUninstalled(last.sender, events[2].pkpAddress)
    /\ events[4] = OperationExecuted(last.sender, last.target, last.value, last.data)

\* C28: for an account installed with address(0) as its signer,
\* executeFromExecutor fails whatever the signature, malformed ones included,
\* and forwards no call.
ZeroSignerNeverAuthenticates ==
    [][(/\ Invoked("executeFromExecutor")
        /\ accountPKPs[last'.sender].isInstalled
        /\ accountPKPs[last'.sender].pkpEthAddress = ZeroAddress)
       => /\ last'.result \notin {"ok", "calling"}
          /\ UNCHANGED <<accountPKPs, pkpToAccount, status, events, calls, stack>>]_vars

\* a signature from which nothing can be recovered was presented for an
\* account whose signer is address(0)
ZeroSignerNeverAuthenticatesWitness ==
    /\ TopLevel
    /\ last.op = "executeFromExecutor"
    /\ accountPKPs[last.sender].isInstalled
    /\ accountPKPs[last.sender].pkpEthAddress = ZeroAddress
    /\ last.signature = Malformed("badV")
    /\ last.result = "ECDSAInvalidSignature"
    /\ calls = <<>>

SignOperationReportsFailure ==
    client.call.method = "signOperation"
    => LET net == client.call.net
           failed == \/ ~net.session
                     \/ net.signing \in {"throws", "null", "noR", "noS"}
                     \/ client.call.toSign = <<>>
       IN  /\ ~client.call.thrown
           /\ client.isConnected
           /\ failed => /\ client.call.signature = EmptySignature
                        /\ ~client.call.success
           /\ client.call.success
              => /\ Len(client.call.signature) = 3
                 /\ client.call.signature[1] = client.pkpEthAddress
                 /\ client.call.signature[2] = client.call.userOpHash
                 /\ client.call.signature[3] = net.recid + 27

\* main has sent an execute transaction
ExecuteSubmitted == \E i \in DOMAIN client.submitted : client.submitted[i] = "execute"

\* C25: in the demo the execute transaction is submitted only after the
\* install receipt reported success and signOperation returned success; when
\* the install throws or its receipt is not success, or the signing fails,
\* main has returned and no execute transaction is ever submitted.
DemoOrdering ==
    /\ (ExecuteSubmitted \/ Mined("executeFromExecutor"))
       => /\ client.installStatus = "success"
          /\ client.signed = "success"
          /\ client.submitted = <<"install", "execute">>
          /\ accountPKPs[client.account].isInstalled
          /\ accountPKPs[client.account].pkpEthAddress = client.pkpEthAddress
    /\ (client.installStatus \in {"threw", "reverted"} \/ client.signed = "failure")
       => /\ client.pc = "done"
          /\ ~ExecuteSubmitted
          /\ ~Mined("executeFromExecutor")

\* the install succeeded, the operation was signed and the execute
\* transaction has reached the module
DemoOrderingWitness ==
    /\ ExecuteSubmitted
    /\ Mined("executeFromExecutor")
    /\ client.installStatus = "success"
    /\ client.signed = "success"

\* C22: the bytes signOperation submits to the PKP signer for an operation
\* hash h are the EIP-191 prefixed digest of h, the digest executeFromExecutor
\* recovers the signer from; so the signature it returns for
\* getOperationHash(A, T, v, d) is accepted by executeFromExecutor(T, v, d, sig)
\* invoked by A, whose registered signer is the PKP address.
DigestAgreement ==
    /\ (client.call.method = "signOperation" /\ client.call.toSign # <<>>)
       => FromBigEndian(client.call.toSign)
            = EthSignedMessageHashes[client.call.userOpHash]
    /\ (/\ Mined("executeFromExecutor")
        /\ client.signed = "success"
        /\ accountPKPs[client.account].isInstalled
        /\ accountPKPs[client.account].pkpEthAddress = client.pkpEthAddress
        /\ last.signature = SignatureBytes(client.signature))
       => last.result \in {"calling", "ok"}
====
